---- MODULE Spec2Model ----
(***************************************************************************)
(* State-machine model of android::DrmDevice (drm/DrmDevice.cpp,           *)
(* drm/DrmDevice.h): capability negotiation, resource enumeration, display *)
(* id allocation, encoder/CRTC binding, property blobs, property lookup.   *)
(*                                                                         *)
(* Objects owned by the device live in the vectors crtcs_, encoders_,      *)
(* connectors_; a pointer to an object is its 1-based position in its      *)
(* vector and nullptr is 0.  A std::map is a function whose DOMAIN is the  *)
(* set of keys.                                                            *)
(***************************************************************************)
EXTENDS Integers, Sequences, FiniteSets, TLC

\* ---- errno values returned (negated) by the code ------------------------
ENOENT == 2
EAGAIN == 11
EACCES == 13
ENODEV == 19
EINVAL == 22

\* ---- bounds of the model --------------------------------------------------
NumCrtcs == 2        \* CRTCs the kernel reports
NumEncoders == 2     \* encoders the kernel reports
MaxConnectors == 2   \* connectors the kernel reports, at most (routing snapshots)
MaxClassConnectors == 3 \* connectors the kernel reports, at most (class snapshots)
MaxStart == 1        \* largest starting display id passed to Init
MaxBlobs == 2        \* RegisterUserPropertyBlob calls
NumPropIds == 3      \* property ids the kernel knows
MaxProps == 2        \* properties of the looked-up object, at most
MaxPropValue == 1    \* largest property value

VARIABLES
  pc,                        \* position of the Init call ("Idle" before, "Done" after)
  run,                       \* number of Init calls started on this device object
  starting_display_id,       \* the num_displays argument of Init
  calls,                     \* kernel calls issued by the current Init, in order
  capWriteback,              \* kernel side: writeback client cap enabled
  capModifiers,              \* kernel side: what drmGetCap(ADDFB2_MODIFIERS) answered
  res,                       \* kernel side: the snapshot the resource query reports
  fd_,                       \* UniqueFd is open
  HasAddFb2ModifiersSupport_,
  crtcs_, encoders_, connectors_, writeback_connectors_, planes_,
  bound_crtcs_,              \* map display -> DrmCrtc*
  bound_connectors_,         \* map display -> DrmConnector*
  connectors_to_display_id_, \* map DrmConnector* -> display
  encoders_to_display_id_,   \* map DrmEncoder* -> display
  bound_encoders_,           \* map DrmCrtc* -> DrmEncoder*
  num_displays,              \* the by-value parameter, incremented by add_displays
  ret,                       \* local ret of Init
  conn_it,                   \* position of the CreateDisplayPipe loop in connectors_
  result,                    \* the tuple Init returned: <<status, display count>>
  first,                     \* result and pipelines of the first Init, kept for comparison
  master,                    \* kernel side: this client holds DRM master
  blobs,                     \* the handles RegisterUserPropertyBlob returned, in call order
  kernelBlobs,               \* kernel side: ids of the property blobs that exist
  blobIoctls,                \* blob ioctls issued, in order
  blobLog,                   \* ALOGE lines of the blob code
  propObject,                \* kernel side: the property list of the looked-up object
  propNames,                 \* kernel side: name of every property id
  propName,                  \* the prop_name argument of GetProperty
  propOut                    \* what GetProperty returned and wrote to *property

devVars == <<pc, run, starting_display_id, calls, capWriteback, capModifiers, res, fd_,
             HasAddFb2ModifiersSupport_, crtcs_, encoders_, connectors_,
             writeback_connectors_, planes_, bound_crtcs_, bound_connectors_,
             connectors_to_display_id_, encoders_to_display_id_, bound_encoders_,
             num_displays, ret, conn_it, result, first, master>>
blobVars == <<blobs, kernelBlobs, blobIoctls, blobLog>>
propVars == <<propObject, propNames, propName, propOut>>

vars == <<devVars, blobVars, propVars>>

\* ---- helpers ----------------------------------------------------------------
EmptyMap == [x \in {} |-> 0]

\* std::map operator[] assignment
MapPut(m, k, v) == [x \in DOMAIN m \cup {k} |-> IF x = k THEN v ELSE m[x]]

Pow2(n) == 2 ^ n

\* kernel object ids: one id space per device, distinct from array indices
CrtcIdOf(i) == 31 + i
EncoderIdOf(i) == 21 + i
ConnectorIdOf(i) == 11 + i
PlaneIdOf(i) == 41 + i

NoResult == <<>>
\* x still holds NoResult (a record or a tuple otherwise)
Unset(x) == DOMAIN x = {}

\* ---- the kernel's resource snapshot ---------------------------------------
CrtcIds == {CrtcIdOf(i) : i \in 0..(NumCrtcs - 1)}
EncoderIds(n) == {EncoderIdOf(i) : i \in 0..(n - 1)}

\* drmModeEncoder as read by DrmEncoder: current CRTC id (0 if none) and the
\* possible-CRTC bitmask
EncoderShapes ==
  [crtc_id : {0} \cup CrtcIds, possible_crtcs : 0..(Pow2(NumCrtcs) - 1)]

\* drmModeConnector as read by DrmConnector; kind "invalid" is a connector
\* whose CreateInstance fails
ConnectorShapes(kinds, internals, connecteds, n) ==
  [kind : kinds, internal : internals, connected : connecteds,
   encoder_id : {0} \cup EncoderIds(n), encoders : SUBSET EncoderIds(n)]

SeqsUpTo(S, n) == UNION {[1..k -> S] : k \in 0..n}

\* snapshots that vary the encoder/CRTC routing (three priority classes:
\* internal connected, external connected, external disconnected)
PipeSnapshots ==
  UNION {[encoders : [1..n -> EncoderShapes],
          connectors :
            SeqsUpTo({c \in ConnectorShapes({"display"}, BOOLEAN, BOOLEAN, n) :
                        c.internal => c.connected}, MaxConnectors)] :
           n \in 0..NumEncoders}

\* snapshots that vary the encoder/CRTC routing of connected connectors
FitSnapshots ==
  UNION {[encoders : [1..n -> EncoderShapes],
          connectors :
            SeqsUpTo(ConnectorShapes({"display"}, BOOLEAN, {TRUE}, n),
                     MaxConnectors)] : n \in 0..NumEncoders}

\* snapshots that vary the connector classes (every encoder can drive every
\* CRTC, every connector every encoder, nothing is configured yet)
ClassSnapshots ==
  LET encs(n) == [i \in 1..n |->
                    [crtc_id |-> 0, possible_crtcs |-> Pow2(NumCrtcs) - 1]]
      shapes == {c \in ConnectorShapes({"display", "writeback", "invalid"},
                                       BOOLEAN, BOOLEAN, NumEncoders) :
                   /\ c.encoder_id = 0
                   /\ c.encoders = EncoderIds(NumEncoders)
                   /\ (c.kind /= "display" => c.internal /\ c.connected)}
  IN [encoders : {encs(NumEncoders), encs(MaxClassConnectors)},
      connectors : SeqsUpTo(shapes, MaxClassConnectors)]

\* snapshots with and without writeback connectors, with one encoder (too few
\* for two display connectors) or NumEncoders of them
CapsSnapshots ==
  LET encs(n) == [i \in 1..n |->
                    [crtc_id |-> 0, possible_crtcs |-> Pow2(NumCrtcs) - 1]]
      shapes == {c \in ConnectorShapes({"display", "writeback"},
                                       BOOLEAN, BOOLEAN, NumEncoders) :
                   /\ c.encoder_id = 0
                   /\ c.encoders = EncoderIds(NumEncoders)
                   /\ (c.kind /= "display" => c.internal /\ c.connected)}
  IN [encoders : {encs(1), encs(NumEncoders)},
      connectors : SeqsUpTo(shapes, MaxConnectors)]

\* ---- DrmCrtc / DrmEncoder / DrmConnector accessors --------------------------
SupportsCrtc(enc, crtc) == (enc.possible_crtcs \div Pow2(crtc.index)) % 2 = 1
SupportsEncoder(conn, enc) == enc.id \in conn.encoders
IsInternal(conn) == conn.internal
IsExternal(conn) == ~conn.internal
IsConnected(conn) == conn.connected
IsWriteback(conn) == conn.kind = "writeback"

\* ---- DrmDevice.h ------------------------------------------------------------
RECURSIVE FindFrom(_, _, _)
FindFrom(objs, id, p) ==
  IF p > Len(objs) THEN 0
  ELSE IF objs[p].id = id THEN p
  ELSE FindFrom(objs, id, p + 1)

FindCrtcById(id) == FindFrom(crtcs_, id, 1)
FindEncoderById(id) == FindFrom(encoders_, id, 1)

HandlesDisplay(display) == display \in DOMAIN bound_connectors_

\* ---- DrmDevice::TryEncoderForDisplay ------------------------------------------
\* The three maps the binding code writes, passed and returned as one record.
Maps(bc, be, e2d) ==
  [bound_crtcs |-> bc, bound_encoders |-> be, encoders_to_display_id |-> e2d]

CurrentMaps == Maps(bound_crtcs_, bound_encoders_, encoders_to_display_id_)

BindCrtc(m, display, crtc, enc) ==
  [m EXCEPT !.bound_crtcs = MapPut(@, display, crtc),
            !.bound_encoders = MapPut(@, crtc, enc)]

\* mutant: the possible-CRTC mask is not consulted
TryPossibleCrtcs_AnyCrtc(display, enc, m, p) ==
  LET free == {c \in p..Len(crtcs_) : crtcs_[c].id /= encoders_[enc].crtc_id}
  IN IF free = {} \/ display \in DOMAIN m.bound_crtcs
     THEN [ret |-> -EAGAIN, maps |-> m]
     ELSE [ret |-> 0,
           maps |-> BindCrtc(m, display,
                             CHOOSE c \in free : \A x \in free : c <= x, enc)]

\* the for loop over crtcs_, from position p
RECURSIVE TryPossibleCrtcs(_, _, _, _)
TryPossibleCrtcs(display, enc, m, p) ==
  IF p > Len(crtcs_) THEN [ret |-> -EAGAIN, maps |-> m]
  ELSE IF \/ ~SupportsCrtc(encoders_[enc], crtcs_[p])
          \/ crtcs_[p].id = encoders_[enc].crtc_id
       THEN TryPossibleCrtcs(display, enc, m, p + 1)
  ELSE IF display \notin DOMAIN m.bound_crtcs
       THEN [ret |-> 0, maps |-> BindCrtc(m, display, p, enc)]
  ELSE TryPossibleCrtcs(display, enc, m, p + 1)

\* mutant: the currently configured CRTC is not tried first
TryEncoderForDisplay_NoFastPath(display, enc, m) ==
  TryPossibleCrtcs(display, enc, m, 1)

TryEncoderForDisplay(display, enc, m) ==
  LET crtc == FindCrtcById(encoders_[enc].crtc_id)
  IN IF crtc /= 0 /\ display \notin DOMAIN m.bound_crtcs
     THEN [ret |-> 0, maps |-> BindCrtc(m, display, crtc, enc)]
     ELSE TryPossibleCrtcs(display, enc, m, 1)

\* ---- DrmDevice::CreateDisplayPipe ---------------------------------------------
\* mutant: the encoder is not recorded for the display
ClaimEncoder_Forgotten(m, enc, display) == m

ClaimEncoder(m, enc, display) ==
  [m EXCEPT !.encoders_to_display_id = MapPut(@, enc, display)]

\* mutant: the encoder is marked as claimed before its CRTC search
RECURSIVE TryEncoders_ClaimBeforeSearch(_, _, _, _)
TryEncoders_ClaimBeforeSearch(connector, display, m, p) ==
  IF p > Len(encoders_) THEN [ret |-> -ENODEV, maps |-> m]
  ELSE IF \/ ~SupportsEncoder(connectors_[connector], encoders_[p])
          \/ p \in DOMAIN m.encoders_to_display_id
       THEN TryEncoders_ClaimBeforeSearch(connector, display, m, p + 1)
  ELSE LET t == TryEncoderForDisplay(display, p, ClaimEncoder(m, p, display))
       IN IF t.ret = 0 \/ t.ret /= -EAGAIN THEN t
          ELSE TryEncoders_ClaimBeforeSearch(connector, display, t.maps, p + 1)

\* mutant: encoders claimed by another display are not skipped
TryEncoders_IgnoresClaims(connector, display, m, p) ==
  LET fit == {x \in p..Len(encoders_) :
                /\ SupportsEncoder(connectors_[connector], encoders_[x])
                /\ TryEncoderForDisplay(display, x, m).ret = 0}
  IN IF fit = {} THEN [ret |-> -ENODEV, maps |-> m]
     ELSE LET fst == CHOOSE x \in fit : \A y \in fit : x <= y
          IN [ret |-> 0,
              maps |-> ClaimEncoder(TryEncoderForDisplay(display, fst, m).maps,
                                    fst, display)]

\* mutant: the last fitting encoder is taken, not the first
TryEncoders_LastFit(connector, display, m, p) ==
  LET fit == {x \in p..Len(encoders_) :
                /\ SupportsEncoder(connectors_[connector], encoders_[x])
                /\ x \notin DOMAIN m.encoders_to_display_id
                /\ TryEncoderForDisplay(display, x, m).ret = 0}
  IN IF fit = {} THEN [ret |-> -ENODEV, maps |-> m]
     ELSE LET last == CHOOSE x \in fit : \A y \in fit : y <= x
          IN [ret |-> 0,
              maps |-> ClaimEncoder(TryEncoderForDisplay(display, last, m).maps,
                                    last, display)]

\* the for loop over encoders_, from position p
RECURSIVE TryEncoders(_, _, _, _)
TryEncoders(connector, display, m, p) ==
  IF p > Len(encoders_) THEN [ret |-> -ENODEV, maps |-> m]
  ELSE IF \/ ~SupportsEncoder(connectors_[connector], encoders_[p])
          \/ p \in DOMAIN m.encoders_to_display_id
       THEN TryEncoders(connector, display, m, p + 1)
  ELSE LET t == TryEncoderForDisplay(display, p, m)
       IN IF t.ret = 0
          THEN [ret |-> 0, maps |-> ClaimEncoder(t.maps, p, display)]
          ELSE IF t.ret /= -EAGAIN THEN t
          ELSE TryEncoders(connector, display, t.maps, p + 1)

\* mutant: the current encoder is taken even when a display already claimed it
CreateDisplayPipe_NoClaimCheck(connector, m) ==
  LET display == connectors_to_display_id_[connector]
      enc0 == FindEncoderById(connectors_[connector].encoder_id)
  IN IF enc0 /= 0
     THEN LET t == TryEncoderForDisplay(display, enc0, m)
          IN IF t.ret = 0
             THEN [ret |-> 0, maps |-> ClaimEncoder(t.maps, enc0, display)]
             ELSE IF t.ret /= -EAGAIN THEN t
             ELSE TryEncoders(connector, display, t.maps, 1)
     ELSE TryEncoders(connector, display, m, 1)

CreateDisplayPipe(connector, m) ==
  LET display == connectors_to_display_id_[connector]
      enc0 == FindEncoderById(connectors_[connector].encoder_id)
  IN IF enc0 /= 0 /\ enc0 \notin DOMAIN m.encoders_to_display_id
     THEN LET t == TryEncoderForDisplay(display, enc0, m)
          IN IF t.ret = 0
             THEN [ret |-> 0, maps |-> ClaimEncoder(t.maps, enc0, display)]
             ELSE IF t.ret /= -EAGAIN THEN t
             ELSE TryEncoders(connector, display, t.maps, 1)
     ELSE TryEncoders(connector, display, m, 1)

\* ---- the add_displays lambda of DrmDevice::Init -------------------------------
\* d is the record of what the lambda writes: the two connector maps and the
\* captured num_displays.
RECURSIVE add_displays_from(_, _, _, _, _)
add_displays_from(conns, internal, connected, d, p) ==
  IF p > Len(conns) THEN d
  ELSE LET conn == conns[p]
           is_connected == IsConnected(conn)
       IN IF /\ (IF internal THEN IsInternal(conn) ELSE IsExternal(conn))
             /\ (IF connected THEN is_connected ELSE ~is_connected)
          THEN add_displays_from(conns, internal, connected,
                 [bound_connectors |-> MapPut(d.bound_connectors, d.num_displays, p),
                  connectors_to_display_id |->
                    MapPut(d.connectors_to_display_id, p, d.num_displays),
                  num_displays |-> d.num_displays + 1], p + 1)
          ELSE add_displays_from(conns, internal, connected, d, p + 1)

add_displays(conns, internal, connected, d) ==
  add_displays_from(conns, internal, connected, d, 1)

\* mutant: both internal classes are added before the external ones
AddAllDisplays_InternalFirst(conns, d) ==
  add_displays(conns, FALSE, FALSE,
    add_displays(conns, FALSE, TRUE,
      add_displays(conns, TRUE, FALSE,
        add_displays(conns, TRUE, TRUE, d))))

\* the four calls, in the order Init makes them
AddAllDisplays(conns, d) ==
  add_displays(conns, FALSE, FALSE,
    add_displays(conns, TRUE, FALSE,
      add_displays(conns, FALSE, TRUE,
        add_displays(conns, TRUE, TRUE, d))))

\* ---- DrmDevice::Init, one action per kernel call or loop step -------------------
\* drmModeObjectGetProperties returned nullptr
NoProps == [ok |-> FALSE, props |-> <<>>, prop_values |-> <<>>]
\* a DrmProperty nobody initialised
NoProperty == [obj_id |-> 0, id |-> 0, name |-> "", value |-> 0]
\* GetProperty not called yet
NotCalled == [called |-> FALSE, ret |-> 0, property |-> NoProperty]

BlobsNone ==
  blobs = <<>> /\ kernelBlobs = {} /\ blobIoctls = <<>> /\ blobLog = <<>>

PropIdle ==
  propObject = NoProps /\ propNames = <<>> /\ propName = "" /\ propOut = NotCalled

\* a failing drmSetClientCap returns a negative errno
ClientCapResults == {0, -EINVAL}

\* drmGetCap(DRM_CAP_ADDFB2_MODIFIERS): status and the value it stores on success
GetCapResults == {[status |-> -EINVAL, value |-> 0], [status |-> 0, value |-> 0],
                  [status |-> 0, value |-> 1]}

\* the probe not made yet
NotProbed == [status |-> 0, value |-> 0]

\* the members of a DrmDevice as its constructor leaves them
NewDevice ==
  /\ fd_ = FALSE /\ HasAddFb2ModifiersSupport_ = FALSE
  /\ crtcs_ = <<>> /\ encoders_ = <<>> /\ connectors_ = <<>>
  /\ writeback_connectors_ = <<>> /\ planes_ = <<>>
  /\ bound_crtcs_ = EmptyMap /\ bound_connectors_ = EmptyMap
  /\ connectors_to_display_id_ = EmptyMap /\ encoders_to_display_id_ = EmptyMap
  /\ bound_encoders_ = EmptyMap

\* no Init call made on the object yet
NoCall ==
  /\ pc = "Idle" /\ run = 0 /\ starting_display_id = 0 /\ calls = <<>>
  /\ num_displays = 0 /\ ret = 0 /\ conn_it = 0 /\ result = NoResult

\* kernel side: nothing negotiated on behalf of this client
NoClient ==
  capWriteback = FALSE /\ capModifiers = NotProbed /\ master = FALSE

\* the device as its constructor leaves it
Constructed ==
  NewDevice /\ NoCall /\ NoClient /\ res = NoResult /\ first = NoResult

Init == Constructed /\ BlobsNone /\ PropIdle

\* return std::make_tuple(status, count)
Return(status, count) == pc' = "Done" /\ result' = <<status, count>>

collections == <<crtcs_, encoders_, connectors_, writeback_connectors_, planes_>>
bindings == <<bound_crtcs_, bound_connectors_, connectors_to_display_id_,
              encoders_to_display_id_, bound_encoders_>>

\* Init(path, num_displays): fd_ = open(path)
OpenPath(s) ==
  /\ \E ok \in BOOLEAN :
       /\ fd_' = ok
       /\ IF ok THEN pc' = "SetUniversalPlanes" /\ UNCHANGED result
                ELSE Return(-ENODEV, 0)
  /\ starting_display_id' = s
  /\ num_displays' = s
  /\ ret' = 0
  /\ conn_it' = 0
  /\ run' = run + 1
  /\ calls' = <<"open">>
  /\ UNCHANGED <<capWriteback, capModifiers, res, HasAddFb2ModifiersSupport_,
                 collections, bindings, master, blobVars, propVars>>

Open(starts) ==
  /\ pc = "Idle"
  /\ \E s \in starts : OpenPath(s)
  /\ UNCHANGED first

SetUniversalPlanes ==
  /\ pc = "SetUniversalPlanes"
  /\ \E r \in ClientCapResults :
       /\ ret' = r
       /\ IF r /= 0 THEN Return(r, 0)
                    ELSE pc' = "SetAtomic" /\ UNCHANGED result
  /\ calls' = Append(calls, "universal_planes")
  /\ UNCHANGED <<run, starting_display_id, capWriteback, res, fd_,
                 HasAddFb2ModifiersSupport_, collections, bindings, num_displays,
                 conn_it, first>>
  /\ UNCHANGED <<master, capModifiers, blobVars, propVars>>

\* mutant: the status of the writeback cap call stays in ret
SetWriteback_KeepRet(outcomes) ==
  /\ pc = "SetWriteback"
  /\ \E r \in outcomes :
       /\ capWriteback' = (r = 0)
       /\ ret' = r
  /\ pc' = "GetCapModifiers"
  /\ calls' = Append(calls, "writeback")
  /\ UNCHANGED <<run, starting_display_id, res, fd_, HasAddFb2ModifiersSupport_,
                 collections, bindings, num_displays, conn_it, result, first>>
  /\ UNCHANGED <<master, capModifiers, blobVars, propVars>>

\* mutant: a failure to enable the atomic cap does not stop Init
SetAtomic_IgnoreFailure ==
  /\ pc = "SetAtomic"
  /\ \E r \in ClientCapResults : ret' = r
  /\ pc' = "SetWriteback"
  /\ calls' = Append(calls, "atomic")
  /\ UNCHANGED <<run, starting_display_id, capWriteback, res, fd_,
                 HasAddFb2ModifiersSupport_, collections, bindings, num_displays,
                 conn_it, result, first>>
  /\ UNCHANGED <<master, capModifiers, blobVars, propVars>>

SetAtomic ==
  /\ pc = "SetAtomic"
  /\ \E r \in ClientCapResults :
       /\ ret' = r
       /\ IF r /= 0 THEN Return(r, 0)
                    ELSE pc' = "SetWriteback" /\ UNCHANGED result
  /\ calls' = Append(calls, "atomic")
  /\ UNCHANGED <<run, starting_display_id, capWriteback, res, fd_,
                 HasAddFb2ModifiersSupport_, collections, bindings, num_displays,
                 conn_it, first>>
  /\ UNCHANGED <<master, capModifiers, blobVars, propVars>>

SetWriteback(outcomes) ==
  /\ pc = "SetWriteback"
  /\ \E r \in outcomes :
       /\ capWriteback' = (r = 0)
       /\ ret' = 0
  /\ pc' = "GetCapModifiers"
  /\ calls' = Append(calls, "writeback")
  /\ UNCHANGED <<run, starting_display_id, res, fd_, HasAddFb2ModifiersSupport_,
                 collections, bindings, num_displays, conn_it, result, first>>
  /\ UNCHANGED <<master, capModifiers, blobVars, propVars>>

GetCapModifiers(outcomes) ==
  /\ pc = "GetCapModifiers"
  /\ \E g \in outcomes :
       LET cap_value == IF g.status /= 0 THEN 0 ELSE g.value
       IN /\ HasAddFb2ModifiersSupport_' = (cap_value /= 0)
          /\ capModifiers' = g
  /\ pc' = "SetMaster"
  /\ calls' = Append(calls, "get_cap_modifiers")
  /\ UNCHANGED <<run, starting_display_id, capWriteback, res, fd_, collections,
                 bindings, num_displays, ret, conn_it, result, first>>
  /\ UNCHANGED <<master, blobVars, propVars>>

SetMaster ==
  /\ pc = "SetMaster"
  /\ \E is_master \in BOOLEAN :
       /\ master' = is_master
       /\ IF ~is_master THEN Return(-EACCES, 0)
                        ELSE pc' = "GetResources" /\ UNCHANGED result
  /\ calls' = calls \o <<"set_master", "is_master">>
  /\ UNCHANGED <<run, starting_display_id, capWriteback, res, fd_,
                 HasAddFb2ModifiersSupport_, collections, bindings, num_displays,
                 ret, conn_it, first>>
  /\ UNCHANGED <<capModifiers, blobVars, propVars>>

\* what drmModeGetResources lists: every connector with its id, writeback
\* connectors only for a client that enabled the writeback cap
ListedConnectors(snap, writeback) ==
  LET all == [k \in 1..Len(snap.connectors) |->
                [id |-> ConnectorIdOf(k - 1), shape |-> snap.connectors[k]]]
  IN SelectSeq(all, LAMBDA c : writeback \/ c.shape.kind /= "writeback")

\* the three CreateInstance loops
NewCrtcs == [k \in 1..NumCrtcs |-> [id |-> CrtcIdOf(k - 1), index |-> k - 1]]

NewEncoders(snap) ==
  [k \in 1..Len(snap.encoders) |->
     [id |-> EncoderIdOf(k - 1), index |-> k - 1,
      crtc_id |-> snap.encoders[k].crtc_id,
      possible_crtcs |-> snap.encoders[k].possible_crtcs]]

NewConnectors(listed, writeback) ==
  LET made == [k \in 1..Len(listed) |->
                 [id |-> listed[k].id, index |-> k - 1,
                  kind |-> listed[k].shape.kind,
                  internal |-> listed[k].shape.internal,
                  connected |-> listed[k].shape.connected,
                  encoder_id |-> listed[k].shape.encoder_id,
                  encoders |-> listed[k].shape.encoders]]
  IN SelectSeq(made, LAMBDA c : c.kind /= "invalid" /\ IsWriteback(c) = writeback)

GetResources(snapshots) ==
  /\ pc = "GetResources"
  /\ \E ok \in BOOLEAN :
       IF ~ok
       THEN /\ Return(-ENODEV, 0)
            /\ UNCHANGED <<res, collections>>
       ELSE \E snap \in (IF Unset(res) THEN snapshots ELSE {res}) :
              LET listed == ListedConnectors(snap, capWriteback)
              IN /\ res' = snap
                 /\ crtcs_' = crtcs_ \o NewCrtcs
                 /\ encoders_' = encoders_ \o NewEncoders(snap)
                 /\ connectors_' = connectors_ \o NewConnectors(listed, FALSE)
                 /\ writeback_connectors_' =
                      writeback_connectors_ \o NewConnectors(listed, TRUE)
                 /\ pc' = "AddDisplays"
                 /\ UNCHANGED <<result, planes_>>
  /\ calls' = Append(calls, "get_resources")
  /\ UNCHANGED <<run, starting_display_id, capWriteback, fd_,
                 HasAddFb2ModifiersSupport_, bindings, num_displays, ret, conn_it,
                 first>>
  /\ UNCHANGED <<master, capModifiers, blobVars, propVars>>

AddDisplays ==
  /\ pc = "AddDisplays"
  /\ LET d == AddAllDisplays(connectors_,
                [bound_connectors |-> bound_connectors_,
                 connectors_to_display_id |-> connectors_to_display_id_,
                 num_displays |-> num_displays])
     IN /\ bound_connectors_' = d.bound_connectors
        /\ connectors_to_display_id_' = d.connectors_to_display_id
        /\ num_displays' = d.num_displays
  /\ IF ret /= 0 THEN Return(ret, 0)
                 ELSE pc' = "GetPlaneResources" /\ UNCHANGED result
  /\ UNCHANGED <<run, starting_display_id, calls, capWriteback, res, fd_,
                 HasAddFb2ModifiersSupport_, collections, bound_crtcs_,
                 encoders_to_display_id_, bound_encoders_, ret, conn_it, first>>
  /\ UNCHANGED <<master, capModifiers, blobVars, propVars>>

GetPlaneResources ==
  /\ pc = "GetPlaneResources"
  /\ \E ok \in BOOLEAN :
       IF ~ok
       THEN Return(-ENOENT, 0) /\ UNCHANGED <<planes_, conn_it>>
       ELSE /\ planes_' = Append(planes_, [id |-> PlaneIdOf(0)])
            /\ conn_it' = 1
            /\ pc' = "CreateDisplayPipe"
            /\ UNCHANGED result
  /\ calls' = Append(calls, "get_plane_resources")
  /\ UNCHANGED <<run, starting_display_id, capWriteback, res, fd_,
                 HasAddFb2ModifiersSupport_, crtcs_, encoders_, connectors_,
                 writeback_connectors_, bindings, num_displays, ret, first>>
  /\ UNCHANGED <<master, capModifiers, blobVars, propVars>>

\* mutant: a connector without a pipeline is skipped instead of failing Init
CreateDisplayPipeStep_SkipFailed ==
  /\ pc = "CreateDisplayPipe"
  /\ conn_it <= Len(connectors_)
  /\ LET r == CreateDisplayPipe(conn_it, CurrentMaps)
     IN /\ ret' = r.ret
        /\ bound_crtcs_' = r.maps.bound_crtcs
        /\ bound_encoders_' = r.maps.bound_encoders
        /\ encoders_to_display_id_' = r.maps.encoders_to_display_id
        /\ conn_it' = conn_it + 1
        /\ UNCHANGED <<pc, result>>
  /\ UNCHANGED <<run, starting_display_id, calls, capWriteback, res, fd_,
                 HasAddFb2ModifiersSupport_, collections, bound_connectors_,
                 connectors_to_display_id_, num_displays, first>>
  /\ UNCHANGED <<master, capModifiers, blobVars, propVars>>

\* one iteration of: for (auto &conn : connectors_) ret = CreateDisplayPipe(conn)
CreateDisplayPipeStep ==
  /\ pc = "CreateDisplayPipe"
  /\ conn_it <= Len(connectors_)
  /\ LET r == CreateDisplayPipe(conn_it, CurrentMaps)
     IN /\ ret' = r.ret
        /\ bound_crtcs_' = r.maps.bound_crtcs
        /\ bound_encoders_' = r.maps.bound_encoders
        /\ encoders_to_display_id_' = r.maps.encoders_to_display_id
        /\ IF r.ret /= 0
           THEN Return(r.ret, 0) /\ UNCHANGED conn_it
           ELSE conn_it' = conn_it + 1 /\ UNCHANGED <<pc, result>>
  /\ UNCHANGED <<run, starting_display_id, calls, capWriteback, res, fd_,
                 HasAddFb2ModifiersSupport_, collections, bound_connectors_,
                 connectors_to_display_id_, num_displays, first>>
  /\ UNCHANGED <<master, capModifiers, blobVars, propVars>>

\* mutant: the count returned is the next free display id
InitReturn_NextDisplayId ==
  /\ pc = "CreateDisplayPipe"
  /\ conn_it > Len(connectors_)
  /\ Return(ret, num_displays)
  /\ UNCHANGED <<run, starting_display_id, calls, capWriteback, res, fd_,
                 HasAddFb2ModifiersSupport_, collections, bindings, num_displays,
                 ret, conn_it, first>>
  /\ UNCHANGED <<master, capModifiers, blobVars, propVars>>

\* return std::make_tuple(ret, bound_connectors_.size())
InitReturn ==
  /\ pc = "CreateDisplayPipe"
  /\ conn_it > Len(connectors_)
  /\ Return(ret, Cardinality(DOMAIN bound_connectors_))
  /\ UNCHANGED <<run, starting_display_id, calls, capWriteback, res, fd_,
                 HasAddFb2ModifiersSupport_, collections, bindings, num_displays,
                 ret, conn_it, first>>
  /\ UNCHANGED <<master, capModifiers, blobVars, propVars>>

Starts == 0..MaxStart

\* Init on a freshly constructed device, every kernel outcome possible, over
\* the snapshots that vary the connector classes
Next ==
  \/ Open(Starts)
  \/ SetUniversalPlanes
  \/ SetAtomic
  \/ SetWriteback(ClientCapResults)
  \/ GetCapModifiers(GetCapResults)
  \/ SetMaster
  \/ GetResources(ClassSnapshots)
  \/ AddDisplays
  \/ GetPlaneResources
  \/ CreateDisplayPipeStep
  \/ InitReturn

Spec == Init /\ [][Next]_vars

\* the same, with the optional capabilities granted, over the snapshots that
\* vary the encoder/CRTC routing
NextPipe ==
  \/ Open({MaxStart})
  \/ SetUniversalPlanes
  \/ SetAtomic
  \/ SetWriteback({0})
  \/ GetCapModifiers({[status |-> 0, value |-> 1]})
  \/ SetMaster
  \/ GetResources(PipeSnapshots)
  \/ AddDisplays
  \/ GetPlaneResources
  \/ CreateDisplayPipeStep
  \/ InitReturn

SpecPipe == Init /\ [][NextPipe]_vars

\* the same, from any starting id, over connected connectors only
NextFit ==
  \/ Open(Starts)
  \/ SetUniversalPlanes
  \/ SetAtomic
  \/ SetWriteback({0})
  \/ GetCapModifiers({[status |-> 0, value |-> 1]})
  \/ SetMaster
  \/ GetResources(FitSnapshots)
  \/ AddDisplays
  \/ GetPlaneResources
  \/ CreateDisplayPipeStep
  \/ InitReturn

SpecFit == Init /\ [][NextFit]_vars

\* ---- Init called again on the same object, same path and starting id --------------
PipelineOf(k) ==
  LET d == connectors_to_display_id_[k]
  IN [display |-> d,
      encoders |-> {encoders_[e].id : e \in {x \in DOMAIN encoders_to_display_id_ :
                                              encoders_to_display_id_[x] = d}},
      crtc |-> IF d \in DOMAIN bound_crtcs_ THEN crtcs_[bound_crtcs_[d]].id ELSE 0]

\* kernel connector id -> the pipelines of the objects made for it
PipelinesById ==
  [id \in {connectors_[k].id : k \in 1..Len(connectors_)} |->
     {PipelineOf(k) : k \in {x \in 1..Len(connectors_) : connectors_[x].id = id}}]

OpenAgain ==
  /\ pc = "Done"
  /\ run = 1
  /\ result[1] = 0
  /\ first' = [result |-> result, pipelines |-> PipelinesById]
  /\ OpenPath(starting_display_id)

\* the kernel reports the same state to the second call (GetResources replays
\* res once it is set)
NextReinit ==
  \/ Open(Starts)
  \/ SetUniversalPlanes
  \/ SetAtomic
  \/ SetWriteback({0})
  \/ GetCapModifiers({[status |-> 0, value |-> 1]})
  \/ SetMaster
  \/ GetResources(ClassSnapshots)
  \/ AddDisplays
  \/ GetPlaneResources
  \/ CreateDisplayPipeStep
  \/ InitReturn
  \/ OpenAgain

SpecReinit == Init /\ [][NextReinit]_vars

\* ---- Init on a second, freshly constructed device over the same kernel state ----
\* what one Init call did, kept for comparison with the call on the next object
Outcome ==
  [result |-> result, calls |-> calls, start |-> starting_display_id,
   looped |-> conn_it >= 1, pipelines |-> PipelinesById, bindings |-> bindings,
   writebacks |-> Len(writeback_connectors_),
   capWriteback |-> capWriteback, capModifiers |-> capModifiers,
   modifiers |-> HasAddFb2ModifiersSupport_]

\* the object is destroyed and a new DrmDevice constructed; the kernel keeps
\* reporting the snapshot res
ConstructAgain ==
  /\ pc = "Done"
  /\ Unset(first)
  /\ first' = Outcome
  /\ fd_' = FALSE /\ HasAddFb2ModifiersSupport_' = FALSE
  /\ crtcs_' = <<>> /\ encoders_' = <<>> /\ connectors_' = <<>>
  /\ writeback_connectors_' = <<>> /\ planes_' = <<>>
  /\ bound_crtcs_' = EmptyMap /\ bound_connectors_' = EmptyMap
  /\ connectors_to_display_id_' = EmptyMap /\ encoders_to_display_id_' = EmptyMap
  /\ bound_encoders_' = EmptyMap
  /\ pc' = "Idle" /\ run' = 0 /\ starting_display_id' = 0 /\ calls' = <<>>
  /\ num_displays' = 0 /\ ret' = 0 /\ conn_it' = 0 /\ result' = NoResult
  /\ capWriteback' = FALSE /\ capModifiers' = NotProbed /\ master' = FALSE
  /\ NewDevice' /\ NoCall' /\ NoClient'
  /\ UNCHANGED <<res, blobVars, propVars>>

NextCaps ==
  \/ Open({MaxStart})
  \/ SetUniversalPlanes
  \/ SetAtomic
  \/ SetWriteback(ClientCapResults)
  \/ GetCapModifiers(GetCapResults)
  \/ SetMaster
  \/ GetResources(CapsSnapshots)
  \/ AddDisplays
  \/ GetPlaneResources
  \/ CreateDisplayPipeStep
  \/ InitReturn
  \/ ConstructAgain

SpecCaps == Init /\ [][NextCaps]_vars

\* ---- a device whose Init has succeeded (no connector plugged into the model) ----
\* RegisterUserPropertyBlob and GetProperty are const methods that use GetFd().
InitCalls ==
  <<"open", "universal_planes", "atomic", "writeback", "get_cap_modifiers",
    "set_master", "is_master", "get_resources", "get_plane_resources">>

Initialized ==
  /\ pc = "Done" /\ run = 1 /\ starting_display_id = MaxStart /\ calls = InitCalls
  /\ capWriteback = TRUE /\ capModifiers = [status |-> 0, value |-> 1]
  /\ master = TRUE
  /\ res = [encoders |-> <<>>, connectors |-> <<>>]
  /\ fd_ = TRUE /\ HasAddFb2ModifiersSupport_ = TRUE
  /\ crtcs_ = NewCrtcs /\ encoders_ = <<>> /\ connectors_ = <<>>
  /\ writeback_connectors_ = <<>> /\ planes_ = <<[id |-> PlaneIdOf(0)]>>
  /\ bound_crtcs_ = EmptyMap /\ bound_connectors_ = EmptyMap
  /\ connectors_to_display_id_ = EmptyMap /\ encoders_to_display_id_ = EmptyMap
  /\ bound_encoders_ = EmptyMap
  /\ num_displays = MaxStart /\ ret = 0 /\ conn_it = 1
  /\ result = <<0, 0>> /\ first = NoResult

\* ---- DrmDevice::RegisterUserPropertyBlob ------------------------------------------
\* A handle is a DrmModeUserPropertyBlobUnique: blob_id 0 is the empty handle
\* (no pointer, the deleter never runs); held is FALSE once the owner released it.
BlobIds == 1..MaxBlobs
ReleaseWays == {"drop", "early_return", "error"}
IoctlResults == {0, -EINVAL}

\* mutant: a handle dropped on an error path never reaches the kernel
ReleaseBlob_LeakOnError(h) ==
  /\ h \in 1..Len(blobs)
  /\ blobs[h].held
  /\ \E way \in ReleaseWays :
       /\ blobs' = [blobs EXCEPT ![h] = [@ EXCEPT !.held = FALSE, !.way = way]]
       /\ IF blobs[h].blob_id = 0 \/ way = "error"
          THEN UNCHANGED <<kernelBlobs, blobIoctls, blobLog>>
          ELSE \E err \in IoctlResults :
                 /\ blobIoctls' = Append(blobIoctls,
                      [op |-> "destroy", blob_id |-> blobs[h].blob_id,
                       err |-> err, by |-> h])
                 /\ IF err /= 0
                    THEN /\ blobLog' = Append(blobLog,
                                         "Failed to destroy mode property blob")
                         /\ UNCHANGED kernelBlobs
                    ELSE /\ kernelBlobs' = kernelBlobs \ {blobs[h].blob_id}
                         /\ UNCHANGED blobLog
  /\ UNCHANGED <<devVars, propVars>>

RegisterUserPropertyBlob ==
  /\ fd_
  /\ Len(blobs) < MaxBlobs
  /\ \E r \in IoctlResults :
       IF r /= 0
       THEN /\ blobLog' = Append(blobLog, "Failed to create mode property blob")
            /\ blobs' = Append(blobs, [blob_id |-> 0, held |-> TRUE, way |-> ""])
            /\ blobIoctls' = Append(blobIoctls,
                 [op |-> "create", blob_id |-> 0, err |-> r, by |-> Len(blobs) + 1])
            /\ UNCHANGED kernelBlobs
       ELSE \E id \in BlobIds \ kernelBlobs :
            /\ kernelBlobs' = kernelBlobs \cup {id}
            /\ blobs' = Append(blobs, [blob_id |-> id, held |-> TRUE, way |-> ""])
            /\ blobIoctls' = Append(blobIoctls,
                 [op |-> "create", blob_id |-> id, err |-> 0, by |-> Len(blobs) + 1])
            /\ UNCHANGED blobLog
  /\ UNCHANGED <<devVars, propVars>>

\* the owner lets go of handle h: ~unique_ptr runs the deleter lambda on a
\* non-null pointer, whichever way the scope is left
ReleaseBlob(h) ==
  /\ h \in 1..Len(blobs)
  /\ blobs[h].held
  /\ \E way \in ReleaseWays :
       /\ blobs' = [blobs EXCEPT ![h] = [@ EXCEPT !.held = FALSE, !.way = way]]
       /\ IF blobs[h].blob_id = 0
          THEN UNCHANGED <<kernelBlobs, blobIoctls, blobLog>>
          ELSE \E err \in IoctlResults :
                 /\ blobIoctls' = Append(blobIoctls,
                      [op |-> "destroy", blob_id |-> blobs[h].blob_id,
                       err |-> err, by |-> h])
                 /\ IF err /= 0
                    THEN /\ blobLog' = Append(blobLog,
                                         "Failed to destroy mode property blob")
                         /\ UNCHANGED kernelBlobs
                    ELSE /\ kernelBlobs' = kernelBlobs \ {blobs[h].blob_id}
                         /\ UNCHANGED blobLog
  /\ UNCHANGED <<devVars, propVars>>

InitBlob == Initialized /\ BlobsNone /\ PropIdle

NextBlob ==
  \/ RegisterUserPropertyBlob
  \/ \E h \in 1..MaxBlobs : ReleaseBlob(h)

SpecBlob == InitBlob /\ [][NextBlob]_vars

\* ---- DrmDevice::GetProperty ---------------------------------------------------------
PropIds == 1..NumPropIds
PropNameSet == {"CRTC_ID", "FB_ID"}
PropValues == 0..MaxPropValue

\* drmModeObjectGetProperties: nullptr, or the parallel arrays props[] and
\* prop_values[] of count_props entries
PropObjects ==
  {NoProps} \cup
  UNION {[ok : {TRUE}, props : [1..n -> PropIds],
          prop_values : [1..n -> PropValues]] : n \in 0..MaxProps}

\* property->Init(obj_id, p, value)
DrmPropertyInit(obj_id, p, value) ==
  [obj_id |-> obj_id, id |-> p.prop_id, name |-> p.name, value |-> value]

\* mutant: the value is read at the wrong index
RECURSIVE ScanProps_FirstValue(_, _, _, _, _)
ScanProps_FirstValue(obj_id, props, names, prop_name, i) ==
  IF i > Len(props.props) THEN [called |-> TRUE, ret |-> -ENOENT, property |-> NoProperty]
  ELSE LET p == [prop_id |-> props.props[i], name |-> names[props.props[i]]]
       IN IF p.name = prop_name
          THEN [called |-> TRUE, ret |-> 0,
                property |-> DrmPropertyInit(obj_id, p, props.prop_values[1])]
          ELSE ScanProps_FirstValue(obj_id, props, names, prop_name, i + 1)

\* the for loop, from index i (1-based here)
RECURSIVE ScanProps(_, _, _, _, _)
ScanProps(obj_id, props, names, prop_name, i) ==
  IF i > Len(props.props) THEN [called |-> TRUE, ret |-> -ENOENT, property |-> NoProperty]
  ELSE LET p == [prop_id |-> props.props[i], name |-> names[props.props[i]]]
       IN IF p.name = prop_name
          THEN [called |-> TRUE, ret |-> 0,
                property |-> DrmPropertyInit(obj_id, p, props.prop_values[i])]
          ELSE ScanProps(obj_id, props, names, prop_name, i + 1)

GetProperty(obj_id, props, names, prop_name) ==
  IF ~props.ok THEN [called |-> TRUE, ret |-> -ENODEV, property |-> NoProperty]
  ELSE ScanProps(obj_id, props, names, prop_name, 1)

LookedUpObject == ConnectorIdOf(0)

GetPropertyCall ==
  /\ fd_
  /\ ~propOut.called
  /\ propOut' = GetProperty(LookedUpObject, propObject, propNames, propName)
  /\ UNCHANGED <<devVars, blobVars, propObject, propNames, propName>>

InitProp ==
  /\ Initialized /\ BlobsNone
  /\ propObject \in PropObjects
  /\ propNames \in [PropIds -> PropNameSet]
  /\ propName \in PropNameSet
  /\ propOut = NotCalled

NextProp == GetPropertyCall

SpecProp == InitProp /\ [][NextProp]_vars

\* ======================= properties of the binding code ==========================
Range(f) == {f[x] : x \in DOMAIN f}
Connectors == 1..Len(connectors_)
Encoders == 1..Len(encoders_)
Crtcs == 1..Len(crtcs_)

\* Init has passed the add_displays calls
DisplaysAllocated ==
  \/ pc \in {"GetPlaneResources", "CreateDisplayPipe"}
  \/ pc = "Done" /\ Len(calls) = Len(InitCalls)

\* Init is in, or has left, the CreateDisplayPipe loop
InPipeLoop == pc \in {"CreateDisplayPipe", "Done"} /\ conn_it >= 1

Succeeded == pc = "Done" /\ result[1] = 0
Failed == pc = "Done" /\ result[1] /= 0

Claimed(e) == e \in DOMAIN encoders_to_display_id_
EncodersOf(display) ==
  {e \in DOMAIN encoders_to_display_id_ : encoders_to_display_id_[e] = display}

\* connector k has an encoder and a CRTC
HasPipeline(k) ==
  /\ k \in DOMAIN connectors_to_display_id_
  /\ connectors_to_display_id_[k] \in DOMAIN bound_crtcs_
  /\ EncodersOf(connectors_to_display_id_[k]) /= {}

\* C1: after a successful Init no CRTC is bound to two displays.
C1_NoCrtcSharedAfterInit ==
  Succeeded =>
    \A d1, d2 \in DOMAIN bound_crtcs_ :
      d1 /= d2 => bound_crtcs_[d1] /= bound_crtcs_[d2]

\* bound_connectors_ and connectors_to_display_id_ are inverse one-to-one maps
C2_ConnectorMapsInverse ==
  /\ \A d \in DOMAIN bound_connectors_ :
       /\ bound_connectors_[d] \in DOMAIN connectors_to_display_id_
       /\ connectors_to_display_id_[bound_connectors_[d]] = d
  /\ \A c \in DOMAIN connectors_to_display_id_ :
       /\ connectors_to_display_id_[c] \in DOMAIN bound_connectors_
       /\ bound_connectors_[connectors_to_display_id_[c]] = c

\* a step leaves every entry of encoders_to_display_id_ as it is
C2_EncoderBoundOnce ==
  \A e \in DOMAIN encoders_to_display_id_ :
    /\ e \in DOMAIN encoders_to_display_id_'
    /\ encoders_to_display_id_'[e] = encoders_to_display_id_[e]

\* C2: in every state the display-to-connector and connector-to-display maps
\* are inverse one-to-one maps, and no step binds an encoder that is already in
\* the encoder-to-display map (an encoder's display never changes).
C2_ExclusiveEncodersAndConnectors ==
  []C2_ConnectorMapsInverse /\ [][C2_EncoderBoundOnce]_vars

\* two connectors configured on the same encoder, both given a pipeline
C2_Witness ==
  /\ Succeeded
  /\ Len(connectors_) = 2
  /\ connectors_[1].encoder_id /= 0
  /\ connectors_[1].encoder_id = connectors_[2].encoder_id
  /\ Cardinality(DOMAIN encoders_to_display_id_) = 2
  /\ Cardinality(DOMAIN bound_connectors_) = 2

\* C3: display ids follow the priority classes and, within a class, the
\* enumeration order; the first id goes to an internal connected connector
\* whenever there is one.
ClassRank(conn) ==
  IF conn.internal /\ conn.connected THEN 1
  ELSE IF ~conn.internal /\ conn.connected THEN 2
  ELSE IF conn.internal THEN 3
  ELSE 4

Preferred(a, b) ==
  \/ ClassRank(a) < ClassRank(b)
  \/ ClassRank(a) = ClassRank(b) /\ a.index < b.index

C3_PriorityOrder ==
  DisplaysAllocated =>
    /\ \A a, b \in Connectors :
         Preferred(connectors_[a], connectors_[b]) =>
           /\ {a, b} \subseteq DOMAIN connectors_to_display_id_
           /\ connectors_to_display_id_[a] < connectors_to_display_id_[b]
    /\ (\E c \in Connectors : ClassRank(connectors_[c]) = 1) =>
         /\ starting_display_id \in DOMAIN bound_connectors_
         /\ ClassRank(connectors_[bound_connectors_[starting_display_id]]) = 1

\* three connectors enumerated in the reverse of their priority: internal
\* disconnected, external connected, internal connected
C3_Witness ==
  /\ DisplaysAllocated
  /\ Len(connectors_) = 3
  /\ ClassRank(connectors_[1]) = 3
  /\ ClassRank(connectors_[2]) = 2
  /\ ClassRank(connectors_[3]) = 1
  /\ connectors_to_display_id_[3] = starting_display_id
  /\ connectors_to_display_id_[1] = starting_display_id + 2

\* C4: a failed Init leaves no display registered and no map entry.
C4_NoPartialStateOnFailure ==
  Failed =>
    /\ result[2] = 0
    /\ \A d \in (starting_display_id - 1)..(num_displays + 1) : ~HandlesDisplay(d)
    /\ DOMAIN bound_connectors_ = {}
    /\ DOMAIN connectors_to_display_id_ = {}
    /\ DOMAIN bound_crtcs_ = {}
    /\ DOMAIN encoders_to_display_id_ = {}
    /\ DOMAIN bound_encoders_ = {}

\* encoder e has a CRTC to offer: its configured one, or one its mask allows
CrtcAvailable(e) ==
  \/ \E c \in Crtcs : crtcs_[c].id = encoders_[e].crtc_id
  \/ \E c \in Crtcs : /\ SupportsCrtc(encoders_[e], crtcs_[c])
                      /\ crtcs_[c].id /= encoders_[e].crtc_id

\* some unclaimed encoder, configured on or supported by connector k, has a CRTC
Assignable(k) ==
  \E e \in Encoders :
    /\ ~Claimed(e)
    /\ \/ encoders_[e].id = connectors_[k].encoder_id
       \/ encoders_[e].id \in connectors_[k].encoders
    /\ CrtcAvailable(e)

C5_LoopState ==
  InPipeLoop =>
    /\ \A k \in Connectors : k < conn_it => HasPipeline(k)
    /\ Succeeded => conn_it = Len(connectors_) + 1
    /\ Failed =>
         /\ conn_it \in Connectors
         /\ result = <<-ENODEV, 0>>
         /\ ~Assignable(conn_it)
         /\ \A k \in Connectors : k >= conn_it => ~HasPipeline(k)

C5_FailsWhenUnassignable ==
  (pc = "CreateDisplayPipe" /\ conn_it \in Connectors /\ ~Assignable(conn_it)) =>
    (pc' = "Done" /\ result' = <<-ENODEV, 0>>)

\* C5: Init fails with <<-ENODEV, 0>> at the first connector for which no
\* encoder yields a CRTC, without touching the later connectors, and returns 0
\* only when every connector, connected or not, got a pipeline.
C5_UnassignableConnectorIsFatal ==
  []C5_LoopState /\ [][C5_FailsWhenUnassignable]_vars

\* Init failed at the first of two connectors, a disconnected one; the second
\* could have been bound
C5_Witness ==
  /\ Failed /\ conn_it = 1
  /\ Len(connectors_) = 2
  /\ ~IsConnected(connectors_[1])
  /\ Assignable(2)

\* one CreateDisplayPipe step under the precondition of C6
C6_KeepsFreeConfiguration ==
  (pc = "CreateDisplayPipe" /\ conn_it \in Connectors) =>
    \A e \in Encoders, c \in Crtcs :
      ( /\ encoders_[e].id = connectors_[conn_it].encoder_id
        /\ ~Claimed(e)
        /\ crtcs_[c].id = encoders_[e].crtc_id
        /\ c \notin Range(bound_crtcs_) ) =>
      LET d == connectors_to_display_id_[conn_it]
      IN /\ d \in DOMAIN bound_crtcs_'
         /\ bound_crtcs_'[d] = c
         /\ {x \in DOMAIN encoders_to_display_id_' :
               encoders_to_display_id_'[x] = d} = {e}
         /\ bound_encoders_'[c] = e

\* C6: when the connector's configured encoder exists and is unclaimed, and
\* that encoder's configured CRTC exists and is bound to no display,
\* CreateDisplayPipe binds exactly that encoder and that CRTC.
C6_PreservesKernelConfiguration == [][C6_KeepsFreeConfiguration]_vars

\* the second connector kept its configured encoder 2 and CRTC 2 although
\* encoder 1 and CRTC 1 come first in the scans and also fit
C6_Witness ==
  /\ InPipeLoop /\ conn_it = 3
  /\ Len(encoders_) = 2
  /\ connectors_[2].encoder_id = encoders_[2].id
  /\ connectors_[2].encoders = {encoders_[1].id, encoders_[2].id}
  /\ encoders_[2].crtc_id = crtcs_[2].id
  /\ encoders_[2].possible_crtcs = 3
  /\ EncodersOf(connectors_to_display_id_[1]) = {1}
  /\ bound_crtcs_[connectors_to_display_id_[1]] = 1
  /\ EncodersOf(connectors_to_display_id_[2]) = {2}
  /\ bound_crtcs_[connectors_to_display_id_[2]] = 2

\* C7: a second Init on the same object, fed the same kernel state, returns what
\* the first returned and gives every connector the pipeline it had.
C7_SecondInitRepeatsFirst ==
  (pc = "Done" /\ run = 2 /\ conn_it >= 1) =>
    /\ result = first.result
    /\ \A id \in DOMAIN first.pipelines :
         \E k \in Connectors :
           connectors_[k].id = id /\ {PipelineOf(k)} = first.pipelines[id]

\* ======================= property blobs ============================================
DestroysBy(h) ==
  {i \in 1..Len(blobIoctls) : blobIoctls[i].op = "destroy" /\ blobIoctls[i].by = h}
FailedDestroys ==
  {i \in 1..Len(blobIoctls) : blobIoctls[i].op = "destroy" /\ blobIoctls[i].err /= 0}
DestroyLogs ==
  {i \in 1..Len(blobLog) : blobLog[i] = "Failed to destroy mode property blob"}

\* C8: a handle of a created blob has no destroy call while held and exactly
\* one, naming its blob id, once released, whichever way it was released and
\* whether or not the destroy failed; an empty handle never has one; a failed
\* destroy is logged.
C8_BlobDestroyedExactlyOnce ==
  /\ \A h \in 1..Len(blobs) :
       /\ blobs[h].blob_id = 0 => DestroysBy(h) = {}
       /\ (blobs[h].blob_id /= 0 /\ blobs[h].held) =>
            DestroysBy(h) = {} /\ blobs[h].blob_id \in kernelBlobs
       /\ (blobs[h].blob_id /= 0 /\ ~blobs[h].held) =>
            /\ Cardinality(DestroysBy(h)) = 1
            /\ \A i \in DestroysBy(h) : blobIoctls[i].blob_id = blobs[h].blob_id
  /\ Cardinality(FailedDestroys) = Cardinality(DestroyLogs)

\* a created blob released on an error path whose destroy failed, and an
\* empty handle released as well
C8_Witness ==
  \E h, g \in 1..Len(blobs) :
    /\ blobs[h].blob_id /= 0 /\ ~blobs[h].held /\ blobs[h].way = "error"
    /\ \E i \in DestroysBy(h) : blobIoctls[i].err /= 0
    /\ blobs[g].blob_id = 0 /\ ~blobs[g].held /\ blobs[g].way = "early_return"

\* ======================= property lookup ===========================================
Matches ==
  {i \in 1..Len(propObject.props) : propNames[propObject.props[i]] = propName}

\* C9: -ENODEV exactly when the properties could not be enumerated, -ENOENT
\* exactly when they were and none has the name, otherwise 0 with the
\* descriptor of a property of that name and the value at its index.
C9_LookupByName ==
  propOut.called =>
    /\ (propOut.ret = -ENODEV) <=> ~propObject.ok
    /\ (propOut.ret = -ENOENT) <=> (propObject.ok /\ Matches = {})
    /\ (propObject.ok /\ Matches /= {}) =>
         /\ propOut.ret = 0
         /\ propOut.property.name = propName
         /\ \E i \in Matches :
              propOut.property =
                [obj_id |-> LookedUpObject, id |-> propObject.props[i],
                 name |-> propName, value |-> propObject.prop_values[i]]
    /\ propOut.ret /= 0 => propOut.property = NoProperty

\* the name is found at the second index, after a property of another name
\* holding another value
C9_Witness ==
  /\ propOut.called /\ propOut.ret = 0
  /\ Matches = {2}
  /\ propObject.prop_values[1] /= propObject.prop_values[2]
  /\ propOut.property.value = propObject.prop_values[2]

\* ======================= capability negotiation ====================================
IsPrefix(a, b) == Len(a) <= Len(b) /\ \A i \in 1..Len(a) : a[i] = b[i]
Issued(call) == \E i \in 1..Len(calls) : calls[i] = call
NothingOwned ==
  /\ crtcs_ = <<>> /\ encoders_ = <<>> /\ connectors_ = <<>>
  /\ writeback_connectors_ = <<>> /\ planes_ = <<>>

\* C10: the kernel calls are issued in the fixed order; a failure of the
\* universal-plane cap, the atomic cap or master acquisition ends Init there
\* with a non-zero status (-EACCES for master) and count 0; resources are
\* queried only by a master, and nothing is owned before they are.
C10_NegotiationBeforeEnumeration ==
  /\ IsPrefix(calls, InitCalls)
  /\ (ret /= 0 => pc = "Done")
  /\ (Issued("get_resources") => master)
  /\ (~Issued("get_resources") => NothingOwned)
  /\ (pc = "Done" /\ calls[Len(calls)] \in {"universal_planes", "atomic", "is_master"}) =>
       /\ result[1] /= 0
       /\ result[2] = 0
       /\ (calls[Len(calls)] = "is_master" => result[1] = -EACCES)
       /\ NothingOwned

\* master acquisition failed after the four capability calls
C10_Witness ==
  /\ pc = "Done"
  /\ result = <<-EACCES, 0>>
  /\ calls = SubSeq(InitCalls, 1, 7)
  /\ NothingOwned

\* ======================= optional capabilities ====================================
\* the two Init calls met the same outcome of every required step
SameRequiredOutcomes ==
  /\ calls = first.calls
  /\ starting_display_id = first.start
  /\ (conn_it >= 1) = first.looped

\* the Init on the second object returned; whatever the optional capability
\* calls answered in either call, status, count and bindings are the same
C11_SameOutcome ==
  (pc = "Done" /\ ~Unset(first) /\ SameRequiredOutcomes) =>
    /\ result = first.result
    /\ bindings = first.bindings
    /\ PipelinesById = first.pipelines

\* the modifier flag is exactly: the probe succeeded and stored a non-zero value
C11_ModifierFlag ==
  HasAddFb2ModifiersSupport_ <=>
    (Issued("get_cap_modifiers") /\ capModifiers.status = 0 /\ capModifiers.value /= 0)

\* the optional calls never end Init and leave no error status behind
C11_OptionalStepContinues ==
  (pc \in {"SetWriteback", "GetCapModifiers"}) => (pc' /= "Done" /\ ret' = 0)

\* C11: a failure of the writeback cap call or of the modifier probe never
\* fails Init: for the same kernel snapshot and the same outcomes of the
\* required steps, status, display count and bindings equal those of any other
\* Init, and a failed probe only leaves HasAddFb2ModifiersSupport_ false.
C11_OptionalCapsDoNotFailInit ==
  [](C11_SameOutcome /\ C11_ModifierFlag) /\ [][C11_OptionalStepContinues]_vars

\* both optional calls succeeded for the first device and failed for the second,
\* the kernel has a writeback connector and a display connector, and both Init
\* calls returned <<0, 1>>
C11_Witness ==
  /\ pc = "Done" /\ ~Unset(first)
  /\ first.capWriteback /\ first.modifiers /\ first.writebacks = 1
  /\ ~capWriteback /\ capModifiers.status /= 0 /\ ~HasAddFb2ModifiersSupport_
  /\ writeback_connectors_ = <<>>
  /\ result = <<0, 1>>
  /\ first.result = <<0, 1>>

\* ======================= display ids ==============================================
\* the connectors of the kernel snapshot that are constructed and not writeback
DisplayConnectorIds ==
  {ConnectorIdOf(k - 1) : k \in {x \in 1..Len(res.connectors) :
                                   res.connectors[x].kind = "display"}}

\* C12: after a successful Init(path, s) over N constructed non-writeback
\* connectors the handled display ids are exactly s .. s+N-1, each bound to a
\* distinct one of those connectors, no writeback connector has an id, and the
\* count returned is N.
C12_ContiguousDisplayIds ==
  Succeeded =>
    LET N == Cardinality(DisplayConnectorIds)
        s == starting_display_id
    IN /\ \A d \in (s - 1)..(s + N) : HandlesDisplay(d) <=> (s <= d /\ d < s + N)
       /\ DOMAIN bound_connectors_ = s..(s + N - 1)
       /\ {connectors_[bound_connectors_[d]].id : d \in DOMAIN bound_connectors_}
            = DisplayConnectorIds
       /\ \A d1, d2 \in DOMAIN bound_connectors_ :
            d1 /= d2 => connectors_[bound_connectors_[d1]].id
                          /= connectors_[bound_connectors_[d2]].id
       /\ \A k \in 1..Len(writeback_connectors_) :
            writeback_connectors_[k].id \notin DisplayConnectorIds
       /\ result[2] = N
       /\ num_displays = s + N

\* Init(path, 1) over a writeback connector enumerated first and two display
\* connectors: ids 1 and 2, count 2
C12_Witness ==
  /\ Succeeded
  /\ starting_display_id = 1
  /\ Len(writeback_connectors_) = 1
  /\ writeback_connectors_[1].index = 0
  /\ Len(connectors_) = 2
  /\ DOMAIN bound_connectors_ = {1, 2}
  /\ result = <<0, 2>>

\* ======================= retries ===================================================
\* TryEncoderForDisplay, called in the current state for any display and any
\* encoder, returns 0 or -EAGAIN; on -EAGAIN the three maps are returned as they
\* were passed, on 0 the display has a CRTC and no encoder has been claimed
C13_RetryLeavesMaps ==
  (pc = "CreateDisplayPipe") =>
    \A d \in DOMAIN bound_connectors_, enc \in Encoders :
      LET t == TryEncoderForDisplay(d, enc, CurrentMaps)
      IN /\ t.ret \in {0, -EAGAIN}
         /\ (t.ret = -EAGAIN) => (t.maps = CurrentMaps)
         /\ (t.ret = 0) =>
              /\ d \in DOMAIN t.maps.bound_crtcs
              /\ t.maps.bound_encoders[t.maps.bound_crtcs[d]] = enc
              /\ t.maps.encoders_to_display_id = encoders_to_display_id_

\* every claimed encoder's display has a CRTC
C13_ClaimedHasCrtc ==
  \A enc \in DOMAIN encoders_to_display_id_ :
    encoders_to_display_id_[enc] \in DOMAIN bound_crtcs_

\* a CreateDisplayPipe call that succeeds claims exactly one encoder, for its
\* own display, the one just recorded for the display's CRTC; one that fails
\* returns -ENODEV and leaves every map as it was
C13_ClaimAfterBind ==
  (pc = "CreateDisplayPipe" /\ conn_it \in Connectors) =>
    LET d == connectors_to_display_id_[conn_it]
        new == DOMAIN encoders_to_display_id_' \ DOMAIN encoders_to_display_id_
    IN IF ret' = 0
       THEN \E enc \in Encoders :
              /\ new = {enc}
              /\ encoders_to_display_id_'[enc] = d
              /\ d \in DOMAIN bound_crtcs_'
              /\ bound_encoders_'[bound_crtcs_'[d]] = enc
       ELSE ret' = -ENODEV /\ UNCHANGED bindings

\* C13: a TryEncoderForDisplay call that returns -EAGAIN leaves the three maps
\* untouched, and an encoder enters the encoder-to-display map only after its
\* CRTC search succeeded, so a claimed encoder's display always has a CRTC.
C13_RetryCommitsNothing ==
  [](C13_RetryLeavesMaps /\ C13_ClaimedHasCrtc) /\ [][C13_ClaimAfterBind]_vars

\* the first connector is configured on encoder 1, which has no CRTC to offer
\* (retry), and got encoder 2; encoder 1 stays unclaimed
C13_Witness ==
  /\ InPipeLoop /\ conn_it >= 2
  /\ Len(encoders_) = 2
  /\ connectors_[1].encoder_id = encoders_[1].id
  /\ encoders_[1].crtc_id = 0 /\ encoders_[1].possible_crtcs = 0
  /\ connectors_[1].encoders = {encoders_[1].id, encoders_[2].id}
  /\ EncodersOf(connectors_to_display_id_[1]) = {2}
  /\ ~Claimed(1)

\* ======================= order of the binding loop ================================
\* C14: CreateDisplayPipe runs for the connectors in the order of their display
\* ids: when it is called for a connector, every connector with a smaller
\* display id already has its pipeline, and a connector never fails because a
\* connector with a larger display id holds an encoder it could have used.
C14_BindsInDisplayOrder ==
  /\ (pc = "CreateDisplayPipe" /\ conn_it \in Connectors) =>
       \A a \in Connectors :
         connectors_to_display_id_[a] < connectors_to_display_id_[conn_it] =>
           HasPipeline(a)
  /\ (Failed /\ InPipeLoop) =>
       \A b \in Connectors :
         connectors_to_display_id_[b] > connectors_to_display_id_[conn_it] =>
           \A enc \in EncodersOf(connectors_to_display_id_[b]) :
             /\ encoders_[enc].id /= connectors_[conn_it].encoder_id
             /\ encoders_[enc].id \notin connectors_[conn_it].encoders

\* ======================= first fit ================================================
\* the CRTC the search of encoder e ends on for a display that has none yet:
\* the configured CRTC when it exists, else the first CRTC in crtcs_ that the
\* encoder can drive and that is not its configured one; 0 when there is none
FirstCrtcFor(enc) ==
  LET current == {c \in Crtcs : crtcs_[c].id = encoders_[enc].crtc_id}
      possible == {c \in Crtcs : /\ SupportsCrtc(encoders_[enc], crtcs_[c])
                                 /\ crtcs_[c].id /= encoders_[enc].crtc_id}
  IN IF current /= {} THEN CHOOSE c \in current : \A x \in current : c <= x
     ELSE IF possible /= {} THEN CHOOSE c \in possible : \A x \in possible : c <= x
     ELSE 0

\* the encoder connector k ends on: its configured encoder when that exists,
\* is unclaimed and has a CRTC, else the first encoder in encoders_ that k
\* supports, that is unclaimed and has a CRTC; 0 when there is none
FirstEncoderFor(k) ==
  LET configured == {x \in Encoders : /\ encoders_[x].id = connectors_[k].encoder_id
                                      /\ ~Claimed(x)
                                      /\ FirstCrtcFor(x) /= 0}
      fit == {x \in Encoders : /\ SupportsEncoder(connectors_[k], encoders_[x])
                               /\ ~Claimed(x)
                               /\ FirstCrtcFor(x) /= 0}
  IN IF configured /= {} THEN CHOOSE x \in configured : TRUE
     ELSE IF fit /= {} THEN CHOOSE x \in fit : \A y \in fit : x <= y
     ELSE 0

\* one CreateDisplayPipe call binds the first fit, or fails when there is none
C15_BindsFirstFit ==
  (pc = "CreateDisplayPipe" /\ conn_it \in Connectors) =>
    LET d == connectors_to_display_id_[conn_it]
        enc == FirstEncoderFor(conn_it)
    IN IF enc = 0
       THEN ret' = -ENODEV /\ UNCHANGED bindings
       ELSE /\ ret' = 0
            /\ encoders_to_display_id_' = MapPut(encoders_to_display_id_, enc, d)
            /\ bound_crtcs_' = MapPut(bound_crtcs_, d, FirstCrtcFor(enc))
            /\ bound_encoders_' = MapPut(bound_encoders_, FirstCrtcFor(enc), enc)

\* Scenario A: E0 can drive only crtc0, E1 only crtc1 (each configured on that
\* CRTC or on none), C0 internal connected and configured on E0, C1 external
\* connected, not configured, supporting E1; Init(path, 0)
ScenarioA ==
  /\ starting_display_id = 0
  /\ Len(encoders_) = 2 /\ Len(connectors_) = 2
  /\ encoders_[1].possible_crtcs = 1 /\ encoders_[1].crtc_id \in {0, crtcs_[1].id}
  /\ encoders_[2].possible_crtcs = 2 /\ encoders_[2].crtc_id \in {0, crtcs_[2].id}
  /\ IsInternal(connectors_[1]) /\ IsConnected(connectors_[1])
  /\ connectors_[1].encoder_id = encoders_[1].id
  /\ IsExternal(connectors_[2]) /\ IsConnected(connectors_[2])
  /\ connectors_[2].encoder_id = 0
  /\ encoders_[2].id \in connectors_[2].encoders

\* display 0 = C0/E0/crtc0 and display 1 = C1/E1/crtc1
ScenarioAResult ==
  /\ result = <<0, 2>>
  /\ bound_connectors_ = (0 :> 1) @@ (1 :> 2)
  /\ encoders_to_display_id_ = (1 :> 0) @@ (2 :> 1)
  /\ bound_crtcs_ = (0 :> 1) @@ (1 :> 2)
  /\ bound_encoders_ = (1 :> 1) @@ (2 :> 2)

\* Init got to the binding loop and returned
C15_ScenarioA == (pc = "Done" /\ conn_it >= 1 /\ ScenarioA) => ScenarioAResult

\* C15: CreateDisplayPipe binds the configured encoder when it is usable and
\* otherwise the first supported, unclaimed encoder whose CRTC search succeeds;
\* the CRTC is the encoder's configured one when it exists, otherwise the first
\* it can drive; Scenario A ends with display 0 = C0/E0/crtc0 and
\* display 1 = C1/E1/crtc1.
C15_FirstFit == []C15_ScenarioA /\ [][C15_BindsFirstFit]_vars

\* Scenario A with C1 supporting both encoders: the scan skipped the claimed E0
C15_Witness ==
  /\ pc = "Done" /\ ScenarioA /\ ScenarioAResult
  /\ connectors_[2].encoders = {encoders_[1].id, encoders_[2].id}

\* ======================= hardware compatibility ===================================
\* encoder enc may feed connector k: it is k's configured encoder or one k supports
EncoderFits(k, enc) ==
  \/ encoders_[enc].id = connectors_[k].encoder_id
  \/ SupportsEncoder(connectors_[k], encoders_[enc])

\* CRTC c may feed encoder enc: it is enc's configured CRTC or set in enc's mask
CrtcFits(enc, c) ==
  \/ crtcs_[c].id = encoders_[enc].crtc_id
  \/ SupportsCrtc(encoders_[enc], crtcs_[c])

\* C16: every encoder claimed for a display is the configured encoder of the
\* display's connector or one the connector supports, and the display's CRTC is
\* that encoder's configured CRTC or one its possible-CRTC mask allows; after a
\* successful Init every display has such an encoder and CRTC.
C16_BindingsAreCompatible ==
  /\ \A enc \in DOMAIN encoders_to_display_id_ :
       LET d == encoders_to_display_id_[enc]
       IN /\ d \in DOMAIN bound_connectors_ /\ d \in DOMAIN bound_crtcs_
          /\ EncoderFits(bound_connectors_[d], enc)
          /\ CrtcFits(enc, bound_crtcs_[d])
  /\ Succeeded =>
       \A d \in DOMAIN bound_connectors_ : EncodersOf(d) /= {}

\* a binding that only the kernel's current configuration allows: the connector
\* supports no encoder and its configured encoder's mask is empty; and a second
\* connector bound through the supported set and the mask
C16_Witness ==
  /\ Succeeded
  /\ Len(connectors_) = 2
  /\ connectors_[1].encoders = {}
  /\ connectors_[1].encoder_id = encoders_[1].id
  /\ encoders_[1].possible_crtcs = 0
  /\ encoders_[1].crtc_id = crtcs_[2].id
  /\ bound_crtcs_[connectors_to_display_id_[1]] = 2
  /\ connectors_[2].encoder_id = 0
  /\ encoders_[2].crtc_id = 0
  /\ encoders_[2].possible_crtcs = 1
  /\ bound_crtcs_[connectors_to_display_id_[2]] = 1

\* ======================= complete pipelines =======================================
\* C17: after a successful Init every display id that HandlesDisplay accepts
\* has an entry in the display-to-CRTC map (GetCrtcForDisplay does not throw)
\* and exactly one encoder mapped to it.
C17_PublishedDisplaysAreComplete ==
  Succeeded =>
    \A d \in (starting_display_id - 1)..(num_displays + 1) :
      HandlesDisplay(d) =>
        /\ d \in DOMAIN bound_crtcs_
        /\ bound_crtcs_[d] \in Crtcs
        /\ Cardinality(EncodersOf(d)) = 1

\* two displays published, the second bound by the fallback scan after its
\* configured encoder was taken by the first
C17_Witness ==
  /\ Succeeded
  /\ Cardinality({d \in 0..(MaxStart + MaxConnectors) : HandlesDisplay(d)}) = 2
  /\ connectors_[1].encoder_id = encoders_[1].id
  /\ connectors_[2].encoder_id = encoders_[1].id
  /\ EncodersOf(connectors_to_display_id_[1]) \cup
       EncodersOf(connectors_to_display_id_[2]) = {1, 2}

\* ======================= consistency of the four maps ============================
\* C18: after a successful Init, for every bound display d the CRTC-to-encoder
\* map at d's CRTC holds an encoder whose display is d, and that map has as
\* many entries as there are bound displays.
C18_MapsMutuallyConsistent ==
  Succeeded =>
    /\ \A d \in DOMAIN bound_crtcs_ :
         /\ bound_crtcs_[d] \in DOMAIN bound_encoders_
         /\ bound_encoders_[bound_crtcs_[d]] \in DOMAIN encoders_to_display_id_
         /\ encoders_to_display_id_[bound_encoders_[bound_crtcs_[d]]] = d
    /\ Cardinality(DOMAIN bound_encoders_) = Cardinality(DOMAIN bound_crtcs_)

\* ======================= more connectors than encoders ============================
\* every connector can be given an encoder of its own that is its configured
\* one or one it supports
OneToOneAssignment ==
  \E f \in [Connectors -> Encoders] :
    /\ \A a, b \in Connectors : a /= b => f[a] /= f[b]
    /\ \A k \in Connectors : EncoderFits(k, f[k])

\* C19: once Init has reached the binding loop, it returns <<-ENODEV, 0>>
\* whenever there are more connectors than encoders, and it returns 0 only if
\* the connectors can be given distinct configured-or-supported encoders.
C19_TooFewEncodersIsFatal ==
  (pc = "Done" /\ conn_it >= 1) =>
    /\ (Len(connectors_) > Len(encoders_)) => result = <<-ENODEV, 0>>
    /\ Succeeded => OneToOneAssignment

\* two connectors, the second one disconnected, and one encoder that both
\* support: the first got it and Init failed at the second
C19_Witness ==
  /\ Failed /\ conn_it = 2
  /\ Len(connectors_) = 2 /\ Len(encoders_) = 1
  /\ ~IsConnected(connectors_[2])
  /\ SupportsEncoder(connectors_[2], encoders_[1])
  /\ EncodersOf(connectors_to_display_id_[1]) = {1}
  /\ result = <<-ENODEV, 0>>

====
